---- MODULE Spec2Model ----
(***************************************************************************)
(* Model of the remote (Loki) log shipping pipeline of outofforest/logger, *)
(* src/remote/remote.go: the lokiConn value built by WithRemote, its       *)
(* dispatcher goroutine (Run / send), and the concurrent callers of Write  *)
(* and Sync.                                                               *)
(*                                                                         *)
(* Channels are sequences with a capacity.  A Go select is a set of        *)
(* actions enabled together: the runtime picks any ready case.  Timers     *)
(* (time.After, context.WithTimeout) may fire at any moment they are       *)
(* armed; only TimedSpec counts the seconds the select of Run waits.       *)
(***************************************************************************)
EXTENDS Integers, Sequences, FiniteSets, TLC

(* ------------------------------ bounds --------------------------------- *)

\* capacity of lc.buffer (1000 in WithRemote), scaled down
BufferCap == 2
\* capacity of lc.batch and lc.syncs (batchSize = 100), scaled down
BatchCap == 2
\* number of Write calls made over a run
MaxWrites == 3
\* number of Sync calls made over a run (one token each)
MaxSyncs == 2
\* number up to which the requests of one send are counted
MaxAttempts == 3

NanosPerSec == 1000000000

\* seconds the watcher of the select in Run takes to fire
WatcherPeriod == 10

(* ------------------------- records and keys ---------------------------- *)

\* instants the encoder may stamp on a record ("ts", RFC3339Nano)
Times ==
    { [sec |-> 0, nsec |-> NanosPerSec - 1],
      [sec |-> 1, nsec |-> 0],
      [sec |-> 1, nsec |-> 1] }

\* time.Now() when WithRemote builds the connection
Now == [sec |-> 1, nsec |-> 0]

\* the instant n nanoseconds after Now
Later(n) == [sec |-> Now.sec, nsec |-> Now.nsec + n]

\* (level, logger name, labels) of the records written
StreamKeys ==
    { [Level |-> "info", Logger |-> "", Labels |-> "a"],
      [Level |-> "info", Logger |-> "app", Labels |-> "a"] }

PlainKey == [Level |-> "info", Logger |-> "", Labels |-> "a"]

RecordIds == 1..MaxWrites
Tokens == 1..MaxSyncs

\* tsParsed.UnixNano()
UnixNano(t) == t.sec * NanosPerSec + t.nsec

RECURSIVE FormatInt(_)
\* strconv.FormatInt(n, 10) for n >= 0, as the sequence of decimal digits
FormatInt(n) == IF n < 10 THEN <<n>> ELSE Append(FormatInt(n \div 10), n % 10)

Range(s) == { s[i] : i \in 1..Len(s) }

Max(a, b) == IF a > b THEN a ELSE b

RECURSIVE SetMax(_)
SetMax(S) ==
    IF S = {} THEN 0
    ELSE LET x == CHOOSE y \in S : TRUE
         IN  Max(x, SetMax(S \ {x}))

(* ------------------------------ state ---------------------------------- *)

VARIABLES
    buffer,      \* lc.buffer: FIFO of data records and sync tokens
    batch,       \* lc.batch: records waiting for the next flush
    syncs,       \* lc.syncs: tokens waiting for the next flush to end
    lastTime,    \* lc.lastTime: the watermark
    pc,          \* where the goroutine running Run is
    runErr,      \* what Run returned ("none" while it runs)
    cancelled,   \* ctx.Done() of Run's context is closed
    streams,     \* the streams built by the send in progress
    drained,     \* the raw records drained by the send in progress
    wmAtFlush,   \* lc.lastTime when the send in progress started
    attempts,    \* requests issued by the send in progress (up to MaxAttempts)
    fails,       \* how many of them failed (up to MaxAttempts - 1)
    lastResp,    \* the outcome of the last of them ("none" before the first)
    closed,      \* tokens whose channel has been closed
    syncState,   \* each Sync caller: idle, waiting, ok, timeout, full
    snapshot,    \* records accepted before each Sync enqueued its token
    nextId,      \* Write calls made so far
    submitted,   \* records whose Write returned nil
    dropped,     \* records whose Write returned "no space in buffer"
    acked,       \* records carried by a request answered 204
    flushes,     \* per record, in how many sends it was drained
    emittedMax,  \* the latest timestamp emitted by the sends that returned
    watcherAge,  \* seconds since the select being waited on armed its watcher
    sinceFlush   \* seconds spent in the select since the last flush began

vars ==
    << buffer, batch, syncs, lastTime, pc, runErr, cancelled, streams, drained,
       wmAtFlush, attempts, fails, lastResp, closed, syncState, snapshot, nextId,
       submitted, dropped, acked, flushes, emittedMax, watcherAge, sinceFlush >>

dispVars == << batch, syncs, lastTime, pc, runErr, streams, drained, wmAtFlush,
               attempts, fails, lastResp, closed, acked, flushes, emittedMax,
               watcherAge, sinceFlush >>

\* the two stopwatches of the timed specification
clockVars == << watcherAge, sinceFlush >>

\* what a send in progress holds, beside the channels and lc.lastTime
sendVars == << streams, drained, wmAtFlush, attempts, fails, lastResp >>

callerVars == << syncState, snapshot, nextId, submitted, dropped >>

\* WithRemote
Init ==
    /\ buffer = << >>
    /\ batch = << >>
    /\ syncs = << >>
    /\ lastTime = UnixNano(Now)
    /\ pc = "select"
    /\ runErr = "none"
    /\ cancelled = FALSE
    /\ streams = {}
    /\ drained = << >>
    /\ wmAtFlush = 0
    /\ attempts = 0
    /\ fails = 0
    /\ lastResp = "none"
    /\ closed = {}
    /\ syncState = [s \in Tokens |-> "idle"]
    /\ snapshot = [s \in Tokens |-> {}]
    /\ nextId = 0
    /\ submitted = {}
    /\ dropped = {}
    /\ acked = {}
    /\ flushes = [r \in RecordIds |-> 0]
    /\ emittedMax = 0
    /\ watcherAge = 0
    /\ sinceFlush = 0

(* --------------------- Write, Sync and enqueue ------------------------- *)

\* a bug: one item more than the capacity is accepted
CanEnqueueOffByOne == Len(buffer) <= BufferCap

\* enqueue: the case `lc.buffer <- item` of its select is ready
CanEnqueue == Len(buffer) < BufferCap

\* a bug: the item is put at the head of the queue
EnqueuedAtHead(item) == << item >> \o buffer

\* enqueue: the buffer after `lc.buffer <- item`
Enqueued(item) == Append(buffer, item)

\* Write: one record, stamped t, of stream key k
Write(t, k) ==
    /\ nextId < MaxWrites
    /\ nextId' = nextId + 1
    /\ LET rec == [kind |-> "data", id |-> nextId + 1, time |-> t, key |-> k]
       IN  IF CanEnqueue
           THEN /\ buffer' = Enqueued(rec)
                /\ submitted' = submitted \cup {rec.id}
                /\ dropped' = dropped
           ELSE /\ buffer' = buffer
                /\ submitted' = submitted
                /\ dropped' = dropped \cup {rec.id}
    /\ UNCHANGED << dispVars, cancelled, syncState, snapshot >>

\* Sync, up to its select: make the token and enqueue it; tokens are
\* numbered in the order they are made
SyncCall(s) ==
    /\ syncState[s] = "idle"
    /\ \A o \in Tokens : o < s => syncState[o] # "idle"
    /\ IF CanEnqueue
       THEN /\ buffer' = Enqueued([kind |-> "sync", tok |-> s])
            /\ syncState' = [syncState EXCEPT ![s] = "waiting"]
            /\ snapshot' = [snapshot EXCEPT ![s] = submitted]
       ELSE /\ buffer' = buffer
            /\ syncState' = [syncState EXCEPT ![s] = "full"]
            /\ snapshot' = snapshot
    /\ UNCHANGED << dispVars, cancelled, nextId, submitted, dropped >>

\* a bug: the wait returns nil whether or not the token was closed
TokenReadyAlways(s) == TRUE

\* Sync's select: `<-ch` is ready once the token is closed
TokenReady(s) == s \in closed

\* Sync's select, case <-ch
SyncOk(s) ==
    /\ syncState[s] = "waiting"
    /\ TokenReady(s)
    /\ syncState' = [syncState EXCEPT ![s] = "ok"]
    /\ UNCHANGED << buffer, dispVars, cancelled, snapshot, nextId, submitted,
                    dropped >>

\* Sync's select, case <-ctx.Done(): the 10 s timeout
SyncTimeout(s) ==
    /\ syncState[s] = "waiting"
    /\ syncState' = [syncState EXCEPT ![s] = "timeout"]
    /\ UNCHANGED << buffer, dispVars, cancelled, snapshot, nextId, submitted,
                    dropped >>

\* the context given to Run is cancelled
Cancel ==
    /\ ~cancelled
    /\ cancelled' = TRUE
    /\ UNCHANGED << buffer, dispVars, callerVars >>

(* ----------------------- send: grouping -------------------------------- *)

\* a bug: the timestamp is left as parsed
ClampNot(ts, wm) == ts

\* send: ts, raised to lc.lastTime when lc.lastTime > ts
Clamp(ts, wm) == IF wm > ts THEN wm ELSE ts

\* send: the logItem appended for one raw record
LogItem(rec, wm) == [Time |-> Clamp(UnixNano(rec.time), wm), Data |-> rec.id]

\* send: the logKey of a raw record
LogKey(rec) == rec.key

KeysOf(b) == { LogKey(b[i]) : i \in 1..Len(b) }

RECURSIVE Group(_, _, _)
\* send: items[k] after the drain loop, in the order the records were drained
Group(b, k, wm) ==
    IF b = << >> THEN << >>
    ELSE IF LogKey(Head(b)) = k
         THEN << LogItem(Head(b), wm) >> \o Group(Tail(b), k, wm)
         ELSE Group(Tail(b), k, wm)

\* sort.Slice's less
Less(a, b) == a.Time < b.Time

\* a bug: the group is left in the order the records were drained
SortedNot(is) == { is }

\* sort.Slice(is, less): any arrangement of is ordered by less (not stable)
Sorted(is) ==
    { p \in [1..Len(is) -> Range(is)] :
        /\ Range(p) = Range(is)
        /\ \A i, j \in 1..Len(is) : i < j => ~Less(p[j], p[i]) }

\* send: the maps `items` may be after every group was sorted
Items(b, wm) ==
    LET ks == KeysOf(b)
        all == UNION { Sorted(Group(b, k, wm)) : k \in ks }
    IN  { f \in [ks -> all] : \A k \in ks : f[k] \in Sorted(Group(b, k, wm)) }

\* a bug: the first item of each group is taken for its latest
NewLastTimeFromFirst(items, wm) ==
    SetMax({wm} \cup { items[k][1].Time : k \in DOMAIN items })

\* send: lc.lastTime after the loop over the sorted groups
NewLastTime(items, wm) ==
    SetMax({wm} \cup { items[k][Len(items[k])].Time : k \in DOMAIN items })

\* send: the "stream" map of one key
StreamOf(k) == [labels |-> k.Labels, level |-> k.Level, logger |-> k.Logger]

\* send: the "values" of one group
ValuesOf(is) ==
    [i \in 1..Len(is) |-> [ts |-> FormatInt(is[i].Time), line |-> is[i].Data]]

\* send: the streams of the request body
Streams(items) ==
    { [stream |-> StreamOf(k), values |-> ValuesOf(items[k])] :
        k \in DOMAIN items }

(* --------------------------- Run: the loop ----------------------------- *)

\* a bug: the loop also continues with a batch that is full
BatchShortOrFull(b) == Len(b) <= BatchCap

\* Run: after the select, `continue` while the batch is short of its capacity
BatchShort(b) == Len(b) < BatchCap

\* Run's select, case i := <-lc.buffer, i a []byte
RecvData ==
    /\ pc = "select"
    /\ buffer # << >>
    /\ Head(buffer).kind = "data"
    /\ buffer' = Tail(buffer)
    /\ IF Len(batch) < BatchCap
       THEN /\ batch' = Append(batch, Head(buffer))
            /\ pc' = IF BatchShort(batch') THEN "select" ELSE "send"
       ELSE \* `lc.batch <- item` on a full channel: the goroutine blocks
            /\ batch' = batch
            /\ pc' = "blocked"
    /\ UNCHANGED << syncs, lastTime, runErr, cancelled, sendVars, closed,
                    callerVars, acked, flushes >>
    /\ watcherAge' = 0
    /\ sinceFlush' = IF pc' = "select" THEN sinceFlush ELSE 0
    /\ UNCHANGED emittedMax

\* Run: lc.syncs after the inner select that stores a token
SyncsAfter(tok) ==
    IF Len(syncs) < BatchCap
    THEN Append(syncs, tok)
    ELSE Append(Tail(syncs), tok)

\* a bug: a token is stored and the loop continues, as it does for a record
RecvSyncContinues ==
    /\ pc = "select"
    /\ buffer # << >>
    /\ Head(buffer).kind = "sync"
    /\ buffer' = Tail(buffer)
    /\ syncs' = SyncsAfter(Head(buffer).tok)
    /\ pc' = "select"
    /\ UNCHANGED << batch, lastTime, runErr, cancelled, sendVars, closed,
                    callerVars, acked, flushes >>
    /\ watcherAge' = 0
    /\ sinceFlush' = sinceFlush
    /\ UNCHANGED emittedMax

\* Run's select, case i := <-lc.buffer, i a chan struct{}
RecvSync ==
    /\ pc = "select"
    /\ buffer # << >>
    /\ Head(buffer).kind = "sync"
    /\ buffer' = Tail(buffer)
    /\ syncs' = SyncsAfter(Head(buffer).tok)
    /\ pc' = "send"
    /\ UNCHANGED << batch, lastTime, runErr, cancelled, sendVars, closed,
                    callerVars, acked, flushes >>
    /\ watcherAge' = 0
    /\ sinceFlush' = 0
    /\ UNCHANGED emittedMax

\* Run's select, case <-watcher: the 10 s timer armed by this iteration
WatcherFires ==
    /\ pc = "select"
    /\ pc' = "send"
    /\ UNCHANGED << buffer, batch, syncs, lastTime, runErr, cancelled, sendVars,
                    closed, callerVars, acked, flushes >>
    /\ watcherAge' = 0
    /\ sinceFlush' = 0
    /\ UNCHANGED emittedMax

\* a bug: on cancellation Run empties the batch before it returns
CtxDoneFlushes ==
    /\ pc = "select"
    /\ cancelled
    /\ pc' = "done"
    /\ runErr' = "cancelled"
    /\ batch' = << >>
    /\ UNCHANGED << buffer, syncs, lastTime, cancelled, sendVars, closed,
                    callerVars, acked, flushes >>
    /\ UNCHANGED << emittedMax, clockVars >>

\* Run's select, case <-ctx.Done()
CtxDone ==
    /\ pc = "select"
    /\ cancelled
    /\ pc' = "done"
    /\ runErr' = "cancelled"
    /\ UNCHANGED << buffer, batch, syncs, lastTime, cancelled, sendVars, closed,
                    callerVars, acked, flushes >>
    /\ UNCHANGED << emittedMax, clockVars >>

(* ------------------------------ send ----------------------------------- *)

\* a record the encoder cannot have written: its time field does not parse
BadTime == [sec |-> 0, nsec |-> 0 - 1]

\* send: the lo.Must calls and type assertions pass on this record
Decodes(rec) == rec.time.nsec >= 0

\* a bug: a record that does not decode is taken as it is
DecodeFailsNever(b) == FALSE

\* send: some record of the batch makes a lo.Must call panic
DecodeFails(b) == \E i \in 1..Len(b) : ~Decodes(b[i])

\* send: the place of the record the drain loop panics on
FirstBad(b) ==
    CHOOSE i \in 1..Len(b) :
        /\ ~Decodes(b[i])
        /\ \A j \in 1..(i - 1) : Decodes(b[j])

\* a bug: send goes on to build a request from an empty batch
NothingToSendNever(b) == FALSE

\* send: `len(lc.batch) == 0`, return nil without a request
NothingToSend(b) == b = << >>

\* send, up to the retry loop: drain the batch, group, sort, raise lc.lastTime
SendPrepare ==
    /\ pc = "send"
    /\ IF NothingToSend(batch)
       THEN /\ pc' = "signal"
            /\ UNCHANGED << batch, lastTime, sendVars, flushes, runErr >>
       ELSE IF DecodeFails(batch)
       THEN LET n == FirstBad(batch)
            IN  /\ drained' = SubSeq(batch, 1, n)
                /\ batch' = SubSeq(batch, n + 1, Len(batch))
                /\ pc' = "done"
                /\ runErr' = "panic"
                /\ UNCHANGED << lastTime, streams, wmAtFlush, attempts, fails,
                                lastResp, flushes >>
       ELSE \E items \in Items(batch, lastTime) :
            /\ runErr' = runErr
            /\ batch' = << >>
            /\ drained' = batch
            /\ wmAtFlush' = lastTime
            /\ lastTime' = NewLastTime(items, lastTime)
            /\ streams' = Streams(items)
            /\ attempts' = 0
            /\ fails' = 0
            /\ lastResp' = "none"
            /\ flushes' = [r \in RecordIds |->
                             IF \E i \in 1..Len(batch) : batch[i].id = r
                             THEN flushes[r] + 1 ELSE flushes[r]]
            /\ pc' = "attempt"
    /\ UNCHANGED << buffer, syncs, cancelled, closed, callerVars, acked >>
    /\ UNCHANGED << emittedMax, clockVars >>

\* the outcomes http.DefaultClient.Do and the status check can have
Responses == {"204", "500", "neterr"}

\* a bug: every status the endpoint answers counts as success
DeliveredAnyStatus(r) == r \in {"204", "500"}

\* send: `err == nil` exactly when the status is http.StatusNoContent
Delivered(r) == r = "204"

Counted(n, cap) == IF n < cap THEN n + 1 ELSE n

\* send: the request is built and handed to the client; a context that is
\* already cancelled makes Do fail at once
StartAttempt ==
    /\ pc = "attempt"
    /\ attempts' = Counted(attempts, MaxAttempts)
    /\ IF cancelled
       THEN /\ lastResp' = "ctxerr"
            /\ fails' = Counted(fails, MaxAttempts - 1)
            /\ pc' = "retrywait"
       ELSE /\ lastResp' = lastResp
            /\ fails' = fails
            /\ pc' = "inflight"
    /\ UNCHANGED << buffer, batch, syncs, lastTime, runErr, cancelled, streams,
                    drained, wmAtFlush, closed, callerVars, acked, flushes >>
    /\ UNCHANGED << emittedMax, clockVars >>

\* send: Do returns r; a cancellation that came while the request was in
\* flight either makes Do fail or comes too late to stop the response
AttemptEnds(r) ==
    /\ pc = "inflight"
    /\ r = "ctxerr" => cancelled
    /\ lastResp' = r
    /\ acked' = IF r = "204"
                THEN acked \cup { drained[i].id : i \in 1..Len(drained) }
                ELSE acked
    /\ IF Delivered(r)
       THEN /\ pc' = "signal"
            /\ fails' = fails
       ELSE /\ pc' = "retrywait"
            /\ fails' = Counted(fails, MaxAttempts - 1)
    /\ UNCHANGED << buffer, batch, syncs, lastTime, runErr, cancelled, streams,
                    drained, wmAtFlush, attempts, closed, callerVars, flushes >>
    /\ UNCHANGED << emittedMax, clockVars >>

\* send's select after a failed attempt, case <-time.After(retryInterval)
RetryTimer ==
    /\ pc = "retrywait"
    /\ pc' = "attempt"
    /\ UNCHANGED << buffer, batch, syncs, lastTime, runErr, cancelled, sendVars,
                    closed, callerVars, acked, flushes >>
    /\ UNCHANGED << emittedMax, clockVars >>

\* a bug: on cancellation the drained records are put back into the batch
RetryCancelledRequeue ==
    /\ pc = "retrywait"
    /\ cancelled
    /\ pc' = "done"
    /\ runErr' = "cancelled"
    /\ batch' = drained
    /\ UNCHANGED << buffer, syncs, lastTime, cancelled, sendVars, closed,
                    callerVars, acked, flushes >>
    /\ UNCHANGED << emittedMax, clockVars >>

\* send's select after a failed attempt, case <-ctx.Done(); Run returns the error
RetryCancelled ==
    /\ pc = "retrywait"
    /\ cancelled
    /\ pc' = "done"
    /\ runErr' = "cancelled"
    /\ UNCHANGED << buffer, batch, syncs, lastTime, cancelled, sendVars, closed,
                    callerVars, acked, flushes >>
    /\ UNCHANGED << emittedMax, clockVars >>

RECURSIVE ParseInt(_)
\* the number a sequence of decimal digits writes
ParseInt(d) ==
    IF d = << >> THEN 0
    ELSE 10 * ParseInt(SubSeq(d, 1, Len(d) - 1)) + d[Len(d)]

\* send: the logItem.Time values of the payload built from the drained batch
EmittedTimes ==
    { Clamp(UnixNano(drained[i].time), wmAtFlush) : i \in 1..Len(drained) }

\* Run: the tokens closed by the loop that follows a send returning nil
ToSignal == Range(syncs)

\* Run: close is called on a token that is closed already
DoubleClose == ToSignal \cap closed # {}

\* a bug: Run also closes the pending tokens after it has returned
SignalAlsoOnExit ==
    /\ pc = "signal" \/ (pc = "done" /\ syncs # << >>)
    /\ closed' = closed \cup ToSignal
    /\ syncs' = << >>
    /\ pc' = IF pc = "done" THEN "done" ELSE "select"
    /\ streams' = {}
    /\ drained' = << >>
    /\ wmAtFlush' = 0
    /\ attempts' = 0
    /\ fails' = 0
    /\ lastResp' = "none"
    /\ emittedMax' = SetMax({emittedMax} \cup EmittedTimes)
    /\ UNCHANGED << buffer, batch, lastTime, runErr, cancelled, callerVars, acked,
                    flushes, clockVars >>

\* a bug: the closing loop leaves the tokens it closed in lc.syncs
SignalKeepsTokens ==
    /\ pc = "signal"
    /\ IF DoubleClose
       THEN /\ pc' = "done"
            /\ runErr' = "panic"
            /\ UNCHANGED << closed, syncs, sendVars, emittedMax >>
       ELSE /\ closed' = closed \cup ToSignal
            /\ syncs' = syncs
            /\ pc' = "select"
            /\ runErr' = runErr
            /\ streams' = {}
            /\ drained' = << >>
            /\ wmAtFlush' = 0
            /\ attempts' = 0
            /\ fails' = 0
            /\ lastResp' = "none"
            /\ emittedMax' = SetMax({emittedMax} \cup EmittedTimes)
    /\ UNCHANGED << buffer, batch, lastTime, cancelled, callerVars, acked,
                    flushes, clockVars >>

\* Run: after send returned nil, close and remove every pending token;
\* close of a channel that is closed already panics
Signal ==
    /\ pc = "signal"
    /\ IF DoubleClose
       THEN /\ pc' = "done"
            /\ runErr' = "panic"
            /\ UNCHANGED << closed, syncs, sendVars, emittedMax >>
       ELSE /\ closed' = closed \cup ToSignal
            /\ syncs' = << >>
            /\ pc' = "select"
            /\ runErr' = runErr
            /\ streams' = {}
            /\ drained' = << >>
            /\ wmAtFlush' = 0
            /\ attempts' = 0
            /\ fails' = 0
            /\ lastResp' = "none"
            /\ emittedMax' = SetMax({emittedMax} \cup EmittedTimes)
    /\ UNCHANGED << buffer, batch, lastTime, cancelled, callerVars, acked,
                    flushes, clockVars >>

\* the select of Run waits one more second; the watcher fires when its 10 s
\* are over, so no second passes beyond that
Tick ==
    /\ pc = "select"
    /\ watcherAge < WatcherPeriod
    /\ watcherAge' = watcherAge + 1
    /\ sinceFlush' = sinceFlush + 1
    /\ UNCHANGED << buffer, batch, syncs, lastTime, pc, runErr, cancelled,
                    sendVars, closed, callerVars, acked, flushes, emittedMax >>

\* Run: the watcher of this iteration has run its 10 s
WatcherDue == watcherAge = WatcherPeriod

(* -------------------------- specifications ----------------------------- *)

Dispatcher ==
    \/ RecvData
    \/ RecvSync
    \/ WatcherFires
    \/ CtxDone
    \/ SendPrepare
    \/ StartAttempt
    \/ \E r \in Responses \cup {"ctxerr"} : AttemptEnds(r)
    \/ RetryTimer
    \/ RetryCancelled
    \/ Signal

\* writers that log at successive instants under one key, Sync callers, and
\* the cancellation of Run's context
Next ==
    \/ Write(Later(nextId + 1), PlainKey)
    \/ \E s \in Tokens : SyncCall(s)
    \/ \E s \in Tokens : SyncOk(s)
    \/ \E s \in Tokens : SyncTimeout(s)
    \/ Cancel
    \/ Dispatcher

Spec == Init /\ [][Next]_vars

\* The same callers with a context that is never cancelled and an endpoint
\* that answers 204 again and again.  The Go scheduler runs a goroutine
\* that can run and an armed timer fires (weak fairness of the dispatcher);
\* a select that finds the buffer ready again and again takes from it in
\* the end (strong fairness); so does the 204 among the answers.
DispatcherLive ==
    \/ RecvData
    \/ RecvSync
    \/ WatcherFires
    \/ SendPrepare
    \/ StartAttempt
    \/ \E r \in Responses : AttemptEnds(r)
    \/ RetryTimer
    \/ Signal

NextLive ==
    \/ Write(Later(nextId + 1), PlainKey)
    \/ \E s \in Tokens : SyncCall(s)
    \/ \E s \in Tokens : SyncOk(s)
    \/ \E s \in Tokens : SyncTimeout(s)
    \/ DispatcherLive

LiveSpec ==
    /\ Init
    /\ [][NextLive]_vars
    /\ WF_vars(DispatcherLive)
    /\ SF_vars(RecvData \/ RecvSync)
    /\ SF_vars(AttemptEnds("204"))

\* Spec with the timer of every waiting Sync firing in the end
SyncFairSpec ==
    /\ Init
    /\ [][Next]_vars
    /\ WF_vars(\E s \in Tokens : SyncOk(s) \/ SyncTimeout(s))

\* Writers that stamp any instant under any key, a context that is never
\* cancelled and no Sync caller: what send makes of a batch.
NextGroup ==
    \/ \E t \in Times, k \in StreamKeys : Write(t, k)
    \/ RecvData
    \/ WatcherFires
    \/ SendPrepare
    \/ StartAttempt
    \/ \E r \in Responses : AttemptEnds(r)
    \/ RetryTimer
    \/ Signal

GroupSpec == Init /\ [][NextGroup]_vars

\* the loop of Run with the seconds its select waits counted: records of one
\* stream, no Sync, no cancellation; the watcher fires when it is due
NextTimed ==
    \/ Tick
    \/ Write(Later(nextId + 1), PlainKey)
    \/ RecvData
    \/ (WatcherDue /\ WatcherFires)
    \/ SendPrepare
    \/ StartAttempt
    \/ \E r \in Responses : AttemptEnds(r)
    \/ RetryTimer
    \/ Signal

TimedSpec == Init /\ [][NextTimed]_vars

\* the pipeline fed by a writer whose records may fail to decode, with Sync
\* callers and no cancellation
NextDecode ==
    \/ \E t \in {Later(nextId + 1), BadTime} : Write(t, PlainKey)
    \/ \E s \in Tokens : SyncCall(s) \/ SyncOk(s) \/ SyncTimeout(s)
    \/ RecvData
    \/ RecvSync
    \/ WatcherFires
    \/ SendPrepare
    \/ StartAttempt
    \/ \E r \in Responses : AttemptEnds(r)
    \/ RetryTimer
    \/ Signal

DecodeSpec == Init /\ [][NextDecode]_vars

(* ------------------------------ claims --------------------------------- *)

\* the streams of a request exist: a send has drained a batch
HasPayload == drained # << >> /\ pc \in {"attempt", "inflight", "retrywait", "signal"}

\* the places (stream, index) of the payload that carry record id
PlacesOf(id) ==
    { << st, i >> \in streams \X (1..Len(drained)) :
        i <= Len(st.values) /\ st.values[i].line = id }

\* the raw timestamps of the drained records
RawTimes == { UnixNano(drained[i].time) : i \in 1..Len(drained) }

\* a send is between draining the batch and returning
InSend == pc \in {"attempt", "inflight", "retrywait"}

\* C1: whenever a Sync call has returned nil, every record whose Write
\* returned nil before that Sync enqueued its token has been carried by a
\* request that the endpoint answered with 204.
SyncOkImpliesDelivered ==
    \A s \in Tokens : syncState[s] = "ok" => snapshot[s] \subseteq acked

\* a Sync returned nil after records were accepted, while another caller's
\* record accepted later is still on its way
SyncOkAfterWrites ==
    \E s \in Tokens :
        /\ syncState[s] = "ok"
        /\ snapshot[s] # {}
        /\ submitted \ acked # {}

\* C2: with the context never cancelled and the endpoint answering 204
\* again and again, every record whose Write returned nil is eventually
\* carried by a request answered 204, and no record is ever drained into
\* more than one send.
EveryRecordDeliveredOnce ==
    /\ [](\A r \in RecordIds : flushes[r] <= 1)
    /\ [](\A r \in acked : flushes[r] = 1)
    /\ []<>(submitted \subseteq acked)

\* every Write was made, some were accepted, and all accepted are delivered
AllDelivered ==
    /\ nextId = MaxWrites
    /\ Cardinality(submitted) >= BatchCap
    /\ acked = submitted
    /\ \A r \in submitted : flushes[r] = 1

\* C3: enqueueing never blocks.  A Write on a full buffer returns the
\* error, the record is dropped and the buffer is unchanged; a Sync on a
\* full buffer returns the error at once and leaves no token; otherwise the
\* call appends exactly one item at the tail.
EnqueueNeverBlocks ==
    /\ [](nextId < MaxWrites => ENABLED Write(Later(nextId + 1), PlainKey))
    /\ [](\A s \in Tokens : syncState[s] = "full" => 
            /\ \A i \in 1..Len(buffer) :
                 buffer[i].kind = "sync" => buffer[i].tok # s
            /\ s \notin Range(syncs) \cup closed)
    /\ [][ /\ nextId' # nextId =>
                IF Len(buffer) >= BufferCap
                THEN /\ buffer' = buffer
                     /\ nextId' \in dropped'
                     /\ submitted' = submitted
                ELSE /\ Len(buffer') = Len(buffer) + 1
                     /\ SubSeq(buffer', 1, Len(buffer)) = buffer
                     /\ buffer'[Len(buffer')].kind = "data"
                     /\ buffer'[Len(buffer')].id = nextId'
                     /\ nextId' \in submitted'
           /\ \A s \in Tokens :
                syncState[s] = "idle" /\ syncState'[s] # "idle" =>
                    IF Len(buffer) >= BufferCap
                    THEN /\ buffer' = buffer
                         /\ syncState'[s] = "full"
                    ELSE /\ buffer' = Append(buffer, [kind |-> "sync", tok |-> s])
                         /\ syncState'[s] = "waiting"
           /\ Len(buffer') <= BufferCap
       ]_vars

\* a record was dropped and a Sync failed on a full buffer
BufferWasFull ==
    /\ dropped # {}
    /\ \E s \in Tokens : syncState[s] = "full"
    /\ Len(buffer) = BufferCap

NoSignalAfterExit ==
    [][ pc = "done" =>
          /\ pc' = "done"
          /\ closed' = closed
          /\ \A s \in Tokens :
                syncState'[s] = "ok" /\ syncState[s] # "ok" => s \in closed
          /\ \A s \in Tokens :
                syncState[s] = "idle" /\ syncState'[s] # "idle" =>
                    syncState'[s] \in {"waiting", "full"}
      ]_vars

\* Run has returned; one Sync whose token was pending timed out, and a Sync
\* made after the return waits for a token that lies in the buffer
SyncsAfterExit ==
    /\ pc = "done"
    /\ \E s \in Tokens :
        /\ syncState[s] = "timeout"
        /\ s \in Range(syncs)
        /\ s \notin closed
    /\ \E s \in Tokens :
        /\ syncState[s] \in {"waiting", "timeout"}
        /\ \E i \in 1..Len(buffer) :
             buffer[i].kind = "sync" /\ buffer[i].tok = s

\* C6: send returns nil only when its last request was answered 204; an
\* attempt that fails is followed by the retry wait and then by a request
\* with the same streams, however many attempts were made; send returns
\* an error only when the context is cancelled; tokens are closed only
\* after send returned nil.
RetryUntil204 ==
    /\ [](pc = "signal" /\ drained # << >> =>
            lastResp = "204" /\ attempts = fails + 1)
    /\ [](pc = "retrywait" => ENABLED RetryTimer)
    /\ [](InSend => Range(syncs) \cap closed = {})
    /\ [][ /\ InSend /\ pc' # "done" /\ pc' # "signal" => InSend' /\ streams' = streams
           /\ pc = "inflight" /\ pc' # pc =>
                IF lastResp' = "204" THEN pc' = "signal" ELSE pc' = "retrywait"
           /\ pc = "retrywait" => pc' \in {"retrywait", "attempt", "done"}
           /\ InSend /\ pc' = "done" => cancelled /\ runErr' = "cancelled"
           /\ closed' # closed => pc = "signal"
       ]_vars

\* two failed attempts, then 204 on the third, with a token pending
ThirdAttemptDelivered ==
    /\ pc = "signal"
    /\ ~cancelled
    /\ drained # << >>
    /\ attempts = 3
    /\ fails = 2
    /\ lastResp = "204"
    /\ syncs # << >>
    /\ Range(syncs) \cap closed = {}

\* C7 as claimed: once the context is cancelled while a send is in
\* progress, the send never returns nil.
CancelInSendNeverDelivers ==
    [][ cancelled /\ InSend => pc' \in {"attempt", "inflight", "retrywait", "done"} ]_vars

\* C7, amended: a cancellation seen by the retry wait, or before a request
\* starts, ends the send with the cancellation error: it can no longer
\* return nil, Run returns that error, the drained records go back neither
\* to the batch nor to the buffer, and the pending tokens stay unclosed.
\* (A request in flight when the cancellation comes may still be answered.)
CancelAbortsDelivery ==
    /\ [](cancelled /\ pc = "retrywait" => ENABLED RetryCancelled)
    /\ [](pc = "done" /\ drained # << >> =>
            /\ runErr = "cancelled"
            /\ batch = << >>
            /\ \A i \in 1..Len(drained) : drained[i] \notin Range(buffer)
            /\ Range(syncs) \cap closed = {}
            /\ \A i \in 1..Len(drained) :
                 drained[i].id \in acked => lastResp = "204")
    /\ [][ /\ cancelled /\ pc \in {"attempt", "retrywait"} =>
                pc' \in {"attempt", "retrywait", "done"}
           /\ InSend /\ pc' = "done" =>
                /\ cancelled
                /\ runErr' = "cancelled"
                /\ batch' = batch
                /\ buffer' = buffer
                /\ syncs' = syncs
                /\ closed' = closed
           /\ pc = "done" =>
                /\ pc' = "done"
                /\ batch' = batch
                /\ syncs' = syncs
                /\ closed' = closed
                /\ drained' = drained
       ]_vars

\* Run returned the cancellation error out of a retry wait, with a batch
\* drained, a token pending and its Sync timed out
AbortedWithPending ==
    /\ pc = "done"
    /\ runErr = "cancelled"
    /\ drained # << >>
    /\ lastResp \in {"500", "neterr"}
    /\ syncs # << >>
    /\ \E s \in Range(syncs) : syncState[s] = "timeout"

\* C8: in the streams of every request, no stream key occurs twice, every
\* drained record is at exactly one place, in the stream of its own key,
\* nothing else is carried, and the timestamps of a stream never decrease.
StreamsGrouped ==
    HasPayload =>
        /\ \A a, b \in streams : a.stream = b.stream => a = b
        /\ \A i \in 1..Len(drained) :
             /\ Cardinality(PlacesOf(drained[i].id)) = 1
             /\ \A p \in PlacesOf(drained[i].id) :
                  p[1].stream = StreamOf(drained[i].key)
        /\ \A st \in streams :
             /\ st.values # << >>
             /\ \A i \in 1..Len(st.values) :
                  \E j \in 1..Len(drained) : drained[j].id = st.values[i].line
             /\ \A i \in 1..(Len(st.values) - 1) :
                  ParseInt(st.values[i].ts) <= ParseInt(st.values[i + 1].ts)

\* a stream of two records that were drained in the reverse order of
\* their timestamps and are emitted in the order of their timestamps
StreamReordered ==
    /\ HasPayload
    /\ Len(drained) = 2
    /\ drained[1].key = drained[2].key
    /\ UnixNano(drained[1].time) > UnixNano(drained[2].time)
    /\ UnixNano(drained[2].time) >= wmAtFlush
    /\ \E st \in streams :
         /\ Len(st.values) = 2
         /\ st.values[1].line = drained[2].id
         /\ st.values[2].line = drained[1].id
         /\ ParseInt(st.values[1].ts) < ParseInt(st.values[2].ts)

\* C9: lc.lastTime never decreases; after a send that drained a batch it
\* is the larger of its value before and the latest timestamp of the
\* batch; a send that finds the batch empty leaves it as it was.
WatermarkIsMax ==
    /\ [](HasPayload => lastTime = Max(wmAtFlush, SetMax(RawTimes)))
    /\ [][ /\ lastTime' >= lastTime
           /\ pc = "send" /\ batch = << >> => lastTime' = lastTime
           /\ lastTime' # lastTime => pc = "send" /\ batch # << >>
       ]_vars

\* a send raised the watermark with a batch whose latest record was not
\* the last one drained
WatermarkRaised ==
    /\ HasPayload
    /\ lastTime > wmAtFlush
    /\ Len(drained) >= 2
    /\ UnixNano(drained[Len(drained)].time) < lastTime

\* C10: every drained record is emitted with the larger of its raw
\* timestamp and the watermark at the start of the send, written in decimal.
EmittedIsClamped ==
    HasPayload =>
        \A i \in 1..Len(drained) :
            \A p \in PlacesOf(drained[i].id) :
                p[1].values[p[2]].ts =
                    FormatInt(Max(UnixNano(drained[i].time), wmAtFlush))

\* a payload with a record older than the watermark, emitted with the
\* watermark, and a record newer than it, emitted as stamped
OneClampedOneKept ==
    /\ HasPayload
    /\ \E i, j \in 1..Len(drained) :
         /\ UnixNano(drained[i].time) < wmAtFlush
         /\ UnixNano(drained[j].time) > wmAtFlush
         /\ \E p \in PlacesOf(drained[i].id) :
              ParseInt(p[1].values[p[2]].ts) = wmAtFlush
         /\ \E p \in PlacesOf(drained[j].id) :
              ParseInt(p[1].values[p[2]].ts) = UnixNano(drained[j].time)

BufferOnlyGrows ==
    /\ Len(buffer') >= Len(buffer)
    /\ SubSeq(buffer', 1, Len(buffer)) = buffer

ValueCount == Cardinality(UNION { PlacesOf(r) : r \in RecordIds })

\* C12: the batch never holds more than its capacity and a payload never more
\* records than that; the step that fills the batch goes on to flush at once
\* and no other step of the select leaves a full batch; the flush drains the
\* whole batch into one payload, one value per record.  The batch is below
\* capacity at the select, so a payload of exactly capacity is the payload of
\* a flush triggered by the batch becoming full.
FullBatchFlushedWhole ==
    /\ [](Len(batch) <= BatchCap)
    /\ [](HasPayload =>
            /\ Len(drained) <= BatchCap
            /\ ValueCount = Len(drained)
            /\ \A st \in streams : Len(st.values) <= Len(drained))
    /\ [][pc = "select" /\ batch' # batch =>
            /\ Len(batch') = Len(batch) + 1
            /\ IF Len(batch') = BatchCap THEN pc' = "send" ELSE pc' = "select"]_vars
    /\ [][pc = "send" /\ pc' = "attempt" =>
            /\ drained' = batch
            /\ batch' = << >>]_vars

\* the first payload carries exactly capacity records in one stream while the
\* record written after them is still to be delivered
FirstPayloadFull ==
    /\ HasPayload
    /\ Len(drained) = BatchCap
    /\ Cardinality(streams) = 1
    /\ \A st \in streams : Len(st.values) = BatchCap
    /\ acked = {}
    /\ \A r \in RecordIds : flushes[r] = IF r <= BatchCap THEN 1 ELSE 0
    /\ submitted = RecordIds

\* C13 as stated: while the dispatcher waits in its select, no more than one
\* watcher period passes without a flush being triggered.
FlushEveryPeriod == pc = "select" => sinceFlush <= WatcherPeriod

\* C14: a send that finds the batch empty returns to the closing loop with no
\* payload built, no request issued, nothing acknowledged and the watermark
\* as it was; the closing loop that follows any send returning nil closes
\* every pending token and leaves lc.syncs empty, so it is empty at the select.
EmptyFlushSignals ==
    /\ [][pc = "send" /\ batch = << >> /\ pc' # pc =>
            /\ pc' = "signal"
            /\ lastTime' = lastTime
            /\ syncs' = syncs
            /\ acked' = acked
            /\ streams' = {}
            /\ attempts' = 0
            /\ lastResp' = "none"]_vars
    /\ [](pc = "signal" /\ drained = << >> => attempts = 0 /\ streams = {})
    /\ [][pc = "signal" /\ pc' # pc =>
            /\ pc' = "select"
            /\ syncs' = << >>
            /\ Range(syncs) \subseteq closed'
            /\ lastTime' = lastTime
            /\ acked' = acked]_vars
    /\ [](pc = "select" => syncs = << >>)

\* a token has been closed although no record was ever written: the flush
\* it triggered found the batch empty
EmptyFlushSignalled ==
    /\ pc = "select"
    /\ nextId = 0
    /\ closed # {}
    /\ syncs = << >>
    /\ acked = {}
    /\ lastTime = UnixNano(Now)

\* C16: a send whose batch holds a record that does not decode ends Run with
\* a panic, with no payload built, no request issued and no token closed;
\* after that nothing is delivered, drained or signaled; no payload ever
\* carries a record that does not decode, so the record is never skipped with
\* the rest of its batch sent on, and no record of that batch is delivered.
DecodeFailureIsFatal ==
    /\ [][/\ pc = "send"
          /\ \E i \in 1..Len(batch) : ~Decodes(batch[i])
          /\ pc' # pc
          => /\ pc' = "done"
             /\ runErr' = "panic"
             /\ streams' = {}
             /\ attempts' = 0
             /\ closed' = closed
             /\ acked' = acked
             /\ drained' \o batch' = batch]_vars
    /\ [][runErr = "panic" =>
            /\ pc' = "done"
            /\ runErr' = "panic"
            /\ acked' = acked
            /\ closed' = closed
            /\ batch' = batch
            /\ BufferOnlyGrows
            /\ UNCHANGED sendVars]_vars
    /\ [](runErr = "panic" =>
            /\ pc = "done"
            /\ streams = {}
            /\ \A i \in 1..Len(drained) : drained[i].id \notin acked
            /\ \A i \in 1..Len(batch) : batch[i].id \notin acked)
    /\ [](HasPayload => \A i \in 1..Len(drained) : Decodes(drained[i]))

\* Run has panicked on the second record of a batch, the well-formed first
\* one is lost with it, and a Sync made before has timed out unsignaled
PanickedOnSecondRecord ==
    /\ runErr = "panic"
    /\ Len(drained) = 2
    /\ Decodes(drained[1])
    /\ ~Decodes(drained[2])
    /\ \E s \in Tokens : syncState[s] = "timeout" /\ s \notin closed

\* token s has been taken out of the buffer by the dispatcher
Received(s) ==
    /\ syncState[s] \in {"waiting", "ok", "timeout"}
    /\ \A i \in 1..Len(buffer) : buffer[i].kind = "sync" => buffer[i].tok # s

\* C17: lc.syncs holds at most one token and is empty whenever Run waits in
\* its select; every token is stored into an empty lc.syncs, so the branch
\* that evicts the oldest token is never taken; and a token the dispatcher
\* has received is pending or closed, never discarded.
AtMostOnePending ==
    /\ [](Len(syncs) <= 1)
    /\ [](pc = "select" => syncs = << >>)
    /\ [][syncs' # syncs /\ syncs' # << >> =>
            /\ syncs = << >>
            /\ Len(syncs') = 1
            /\ pc' = "send"]_vars
    /\ [](\A s \in Tokens : Received(s) => s \in Range(syncs) \cup closed)
    /\ [](\A s \in Tokens : Received(s) /\ pc = "select" => s \in closed)

\* one token is pending while its flush waits to retry, the next one waits
\* in the buffer behind it
OnePendingOneQueued ==
    /\ pc = "retrywait"
    /\ Len(syncs) = 1
    /\ \E i \in 1..Len(buffer) : buffer[i].kind = "sync"
    /\ closed = {}

\* the timestamps the streams of the payload carry
PayloadTimes ==
    UNION { { ParseInt(st.values[i].ts) : i \in 1..Len(st.values) } :
              st \in streams }

\* C18: every timestamp of the payload in hand is at least the latest
\* timestamp carried by any payload built before it, in whatever stream;
\* emittedMax is the latest of the logItem.Time values of those payloads,
\* which are the timestamps their streams carried.
TimestampsNeverGoBack ==
    HasPayload =>
        /\ PayloadTimes = EmittedTimes
        /\ \A t \in PayloadTimes : t >= emittedMax

\* a second payload carries a record stamped before the latest timestamp of
\* the first one
OlderRecordInLaterPayload ==
    /\ HasPayload
    /\ emittedMax > UnixNano(Now)
    /\ \E i \in 1..Len(drained) : UnixNano(drained[i].time) < emittedMax

\* the ids of the records drained by the send in progress
DrainedIds == { drained[i].id : i \in 1..Len(drained) }

\* C19: at the select the batch is below its capacity, so the record at the
\* head of the buffer can always be moved and Run never blocks on lc.batch;
\* the batch is empty while the send that drained it delivers; and from the
\* call of send to the end of the closing loop the dispatcher takes nothing
\* from the buffer, and the payload being delivered stays as it was built.
BatchNeverBlocks ==
    /\ [](pc = "select" => Len(batch) < BatchCap)
    /\ [](pc # "blocked")
    /\ [](pc = "select" /\ buffer # << >> /\ Head(buffer).kind = "data"
            => ENABLED RecvData)
    /\ [](InSend \/ (pc = "signal" /\ drained # << >>) => batch = << >>)
    /\ [][InSend \/ pc \in {"send", "signal"} => BufferOnlyGrows]_vars
    /\ [][InSend \/ pc = "signal" => batch' = batch]_vars
    /\ [][InSend /\ pc' # "select" =>
            streams' = streams /\ drained' = drained]_vars

\* a delivery waits to retry with one record in its payload while the two
\* records written since fill the buffer
RecordsWaitDuringDelivery ==
    /\ pc = "retrywait"
    /\ Len(drained) = 1
    /\ batch = << >>
    /\ Len(buffer) = BufferCap
    /\ \A i \in 1..Len(buffer) :
         buffer[i].kind = "data" /\ buffer[i].id \notin DrainedIds

\* C20: the closing loop never closes a token that is closed already, so Run
\* never panics on a close: the pending tokens are distinct and none of them
\* is closed, and a closed token stays closed.  Closing the token of a Sync
\* that has timed out is an ordinary step of the loop, and a Sync that
\* returned its timeout keeps that outcome whatever is closed later.
ClosedAtMostOnce ==
    /\ [](Range(syncs) \cap closed = {})
    /\ [](Cardinality(Range(syncs)) = Len(syncs))
    /\ [](runErr # "panic")
    /\ [][closed \subseteq closed']_vars
    /\ [][\A s \in Tokens :
            /\ (syncState[s] = "timeout" => syncState'[s] = "timeout")
            /\ (syncState[s] = "timeout" /\ s \notin closed /\ s \in closed' =>
                  pc' = "select" /\ runErr' = "none" /\ syncs' = << >>)]_vars

\* the closing loop is about to close the token of a Sync that has timed out
\* already, after a delivery that succeeded
ClosingTimedOutToken ==
    /\ pc = "signal"
    /\ lastResp = "204"
    /\ \E s \in Tokens : syncState[s] = "timeout" /\ s \in Range(syncs)

====
